---- MODULE Spec2Model ----
(***************************************************************************)
(* A model of the Toolkit engine for Mari (src/engine.py, class            *)
(* MariEngine): the project-opened handler, the panel support, the host    *)
(* version check of pre_app_init and the startup command dispatch.         *)
(*                                                                         *)
(* The engine is single threaded: every entry point runs synchronously on  *)
(* the host's UI thread.  An optional value (a dictionary key that may be  *)
(* missing, a Python None) is a sequence of length 0 or 1.                 *)
(***************************************************************************)
EXTENDS Integers, Sequences, FiniteSets, TLC

VARIABLES
    \* ---- project-opened handler
    project,        \* the metadata stored on the Mari project that gets opened
    context,        \* self.context, the engine's current context
    last,           \* what the last call of the handler did
    \* ---- panel support
    widgets,        \* QApplication.allWidgets(): identity -> state, objectName, parent
    main_window,    \* whether a widget named "MainWindow" exists
    palettes,       \* mari.palettes: the palettes in creation order
    pc,             \* the position inside show_panel ("idle" between calls)
    frame,          \* the locals of the running show_panel call
    panel,          \* per panel id: constructions, and the widgets returned
    \* ---- pre_app_init
    mari_version,   \* mari.app.version()
    has_ui,         \* not mari.app.inTerminalMode()
    environ,        \* "SGTK_MARI_VERSION_WARNING_SHOWN" in os.environ
    compatibility_dialog_min_version,   \* the engine setting of that name
    init,           \* what the last call of pre_app_init did
    version_dialogs,    \* the version warning dialogs shown in this process
    \* ---- startup command dispatch
    commands,       \* self.commands: command name -> owning app instance, raises
    dict_order,     \* the enumeration order of Python's dictionaries
    run_at_startup, \* the 'run_at_startup' setting
    dispatch,       \* what the last call of _run_app_instance_commands did
    \* ---- logging
    log_out,        \* what the last call of _emit_log_message wrote and showed
    \* ---- engine life cycle
    phase,          \* "created", "running" (after post_app_init), "destroyed"
    menus,          \* the Shotgun menus live in the host
    menu_generator, \* self._menu_generator: unset, or the state of its menu
    connected,      \* the connections of mari.projects.opened to the handler
    life            \* what the last life cycle call did, in order

projectVars == <<project, context, last>>
panelVars   == <<widgets, main_window, palettes, pc, frame, panel>>
versionVars ==
    <<mari_version, has_ui, environ, compatibility_dialog_min_version, init,
      version_dialogs>>
startupVars == <<commands, dict_order, run_at_startup, dispatch>>
loggingVars == <<log_out>>
lifecycleVars == <<phase, menus, menu_generator, connected, life>>
vars ==
    <<projectVars, panelVars, versionVars, startupVars, loggingVars,
      lifecycleVars>>

None == <<>>
Some(v) == <<v>>
IsSome(o) == Len(o) > 0
Val(o) == o[1]

-----------------------------------------------------------------------------
(***************************************************************************)
(* Logging (engine.py, emit_log_message)                                  *)
(***************************************************************************)
DEBUG == 10
INFO == 20
WARNING == 30
ERROR == 40

LogLevels == {DEBUG, INFO, WARNING, ERROR}

\* line 382, mutated: every record is shown as a message box
ShowsMessageAlways(levelno) == levelno >= DEBUG

\* line 382: if record.levelno >= logging.ERROR: mari.utils.message(msg)
ShowsMessage(levelno) == levelno >= ERROR

\* line 374, mutated: INFO records get the "Debug: " prefix too
HasDebugPrefixAtInfo(levelno) == levelno <= INFO

\* line 374: the "Debug: " prefix is chosen below INFO
HasDebugPrefix(levelno) == levelno < INFO

\* One record through emit_log_message: the formatted message is printed to
\* the console once, and shown in a message box for ERROR and above.
emit_log_message(levelno) ==
    [levelno |-> levelno,
     prefix  |-> HasDebugPrefix(levelno),
     console |-> 1,
     dialog  |-> IF ShowsMessage(levelno) THEN 1 ELSE 0]

MaxLevelno == 50    \* the levels of the records: 0..MaxLevelno

LoggerNames == {"tk-mari", "qt_importer"}
LogMessages == {"m1", "m2"}

\* The log records: the level, the leaf of the logger's name and the message
LogRecords ==
    [levelno : 0..MaxLevelno, basename : LoggerNames, message : LogMessages]

\* lines 374-379: formatter.format(record), as the pieces of the string
FormatRecord(record) ==
    (IF emit_log_message(record.levelno).prefix THEN <<"Debug: ">> ELSE <<>>)
        \o <<"Shotgun ", record.basename, ": ", record.message>>

NoLogOut ==
    [called |-> FALSE,
     record |-> [levelno |-> 0, basename |-> "tk-mari", message |-> "m1"],
     console |-> <<>>, boxes |-> <<>>]

\* The engine passes a record of the toolkit's logging namespace to
\* _emit_log_message: the message boxes shown and the lines printed.
emit_log_record(record) ==
    LET e == emit_log_message(record.levelno)
        msg == FormatRecord(record)
    IN /\ log_out' = [called |-> TRUE, record |-> record,
                      boxes |-> [i \in 1..e.dialog |-> msg],
                      console |-> [i \in 1..e.console |-> msg]]
       /\ UNCHANGED <<projectVars, panelVars, versionVars, startupVars,
                    lifecycleVars>>

RECURSIVE SumDialogs(_)
SumDialogs(recs) ==
    IF recs = <<>> THEN 0 ELSE Head(recs).dialog + SumDialogs(Tail(recs))

\* self.log_debug / self.log_error from a handler: the records reach the bridge
EmitAll(levels) == [i \in 1..Len(levels) |-> emit_log_message(levels[i])]

-----------------------------------------------------------------------------
(***************************************************************************)
(* Project metadata (the metadata manager is outside engine.py)            *)
(***************************************************************************)
MaxId == 2          \* Shotgun entity ids are positive: 1..MaxId
MaxVersion == 2     \* stored project versions: 1..MaxVersion
NumContexts == 2    \* the contexts the resolver can return: 1..NumContexts

Ids == 1..MaxId
Versions == 1..MaxVersion
Contexts == 1..NumContexts
EntityTypes == {"Shot", "Asset"}

Opt(S) == {None} \cup {Some(v) : v \in S}

\* The metadata a project can carry: every key is optional.
Metadata ==
    [task_id : Opt(Ids), entity_id : Opt(Ids), entity_type : Opt(EntityTypes),
     project_id : Opt(Ids), version : Opt(Versions)]

NoMetadata ==
    [task_id |-> None, entity_id |-> None, entity_type |-> None,
     project_id |-> None, version |-> None]

\* get_project_metadata: the mapping of the keys stored on the project
get_project_metadata(p) == p

\* get_project_version: the stored version, None when there is none
get_project_version(p) == p.version

\* set_project_version: stores the version on the project
set_project_version(p, v) == [p EXCEPT !.version = Some(v)]

\* Python truth of "md": an empty mapping is false
MdIsEmpty(md) == md = NoMetadata

\* Python truth of md.get(key): a missing key gives None, and 0 is false too
TruthyInt(o) == IsSome(o) /\ Val(o) # 0

\* Python truth of md.get(key) for a string: a missing key or "" is false
TruthyStr(o) == IsSome(o) /\ Val(o) # ""

-----------------------------------------------------------------------------
(***************************************************************************)
(* __on_project_opened (engine.py lines 388-447)                           *)
(***************************************************************************)
\* The outcomes of self.sgtk.context_from_entity: a context, a TankError, or
\* any other exception.
ResolverOutcomes ==
    {[kind |-> "ok", ctx |-> c] : c \in Contexts}
        \cup {[kind |-> "TankError", ctx |-> 0], [kind |-> "Error", ctx |-> 0]}

\* The outcomes of sgtk.platform.change_context: it returns or it raises.
SwitchOutcomes == {"ok", "raise"}

\* lines 418-429, mutated: project_id is looked at before the entity
DeriveEntityProjectFirst(md) ==
    IF TruthyInt(md.task_id)
    THEN Some([type |-> "Task", id |-> Val(md.task_id)])
    ELSE IF TruthyInt(md.project_id)
    THEN Some([type |-> "Project", id |-> Val(md.project_id)])
    ELSE IF TruthyInt(md.entity_id) /\ TruthyStr(md.entity_type)
    THEN Some([type |-> Val(md.entity_type), id |-> Val(md.entity_id)])
    ELSE None

\* lines 418-429: the context entity of the metadata, None when the handler
\* fails to determine one
DeriveEntity(md) ==
    IF TruthyInt(md.task_id)
    THEN Some([type |-> "Task", id |-> Val(md.task_id)])
    ELSE IF TruthyInt(md.entity_id) /\ TruthyStr(md.entity_type)
    THEN Some([type |-> Val(md.entity_type), id |-> Val(md.entity_id)])
    ELSE IF TruthyInt(md.project_id)
    THEN Some([type |-> "Project", id |-> Val(md.project_id)])
    ELSE None

\* line 415, mutated: the version is stamped on every project
NeedsVersionAlways(ver) == TRUE

\* line 415: if not self.__metadata_mgr.get_project_version(opened_project)
NeedsVersion(ver) == ~TruthyInt(ver)

\* line 435, mutated: no except clause, a TankError propagates
CatchesNothing(kind) == FALSE

\* line 435: except TankError, e
Catches(kind) == kind = "TankError"

\* What a call of the handler leaves behind: the path it took, the project's
\* metadata afterwards, the entity it derived, whether the resolver was
\* called, the context switch it requested, the exception that left it, the
\* levels it logged at and the engine's context afterwards.
Outcome(path, p, entity, resolved, switch, raised, levels, ctx) ==
    [path |-> path, project |-> p, entity |-> entity, resolved |-> resolved,
     switch |-> switch, raised |-> raised, levels |-> levels, ctx |-> ctx]

\* line 440, mutated: the resolved context is never taken for the current one
SameContextNever(ctx, cur) == FALSE

\* line 440: if ctx == self.context
SameContext(ctx, cur) == ctx = cur

\* lines 431-447: resolve the entity to a context and change to it
ResolveAndSwitch(p, entity, cur, r, s, levels) ==
    IF r.kind # "ok"
    THEN IF Catches(r.kind)
         THEN Outcome("resolver_failed", p, entity, TRUE, None, "none",
                      Append(levels, ERROR), cur)
         ELSE Outcome("resolver_raised", p, entity, TRUE, None, r.kind,
                      levels, cur)
    ELSE IF SameContext(r.ctx, cur)
    THEN Outcome("same", p, entity, TRUE, None, "none", levels, cur)
    ELSE IF s = "ok"
    THEN Outcome("switched", p, entity, TRUE, Some(r.ctx), "none",
                 Append(levels, DEBUG), r.ctx)
    ELSE Outcome("switch_raised", p, entity, TRUE, Some(r.ctx),
                 "change_context", Append(levels, DEBUG), cur)

\* lines 407-411, mutated: a project without metadata falls back to the
\* Shotgun project (as the scene-open handlers of other engines do)
NoMetadataFallsBack(p, cur, r, s, levels) ==
    ResolveAndSwitch(p, Some([type |-> "Project", id |-> 1]), cur, r, s, levels)

\* lines 407-411: if not md: log_debug(...); return
NoMetadataPath(p, cur, r, s, levels) ==
    Outcome("no_md", p, None, FALSE, None, "none", Append(levels, DEBUG), cur)

\* lines 397-400, mutated: a new project is handled like any other
SkipsNewNever(is_new) == FALSE

\* lines 397-400: if is_new: return
SkipsNew(is_new) == is_new

\* lines 426-429, mutated: the abort for want of an entity reference leaves
\* the project as it was opened, p, and drops the stamped p2
NoEntityPathUnstamped(p, p2, cur, levels) ==
    Outcome("no_entity", p, None, FALSE, None, "none",
            Append(levels, DEBUG), cur)

\* lines 426-429: else: log_debug(...); return, on the project p2 that
\* lines 415-416 have already stamped
NoEntityPath(p, p2, cur, levels) ==
    Outcome("no_entity", p2, None, FALSE, None, "none",
            Append(levels, DEBUG), cur)

\* The whole handler, on project p with the flag is_new, in context cur, when
\* the resolver would answer r and the context switch s.
Handle(p, is_new, cur, r, s) ==
    IF SkipsNew(is_new)
    THEN Outcome("new", p, None, FALSE, None, "none", <<>>, cur)
    ELSE
      LET md == get_project_metadata(p)
          l1 == <<DEBUG>>
      IN IF MdIsEmpty(md)
         THEN NoMetadataPath(p, cur, r, s, l1)
         ELSE
           LET p2 == IF NeedsVersion(get_project_version(p))
                     THEN set_project_version(p, 1)
                     ELSE p
               entity == DeriveEntity(md)
           IN IF ~IsSome(entity)
              THEN NoEntityPath(p, p2, cur, l1)
              ELSE ResolveAndSwitch(p2, entity, cur, r, s, l1)

NoCall ==
    [op |-> "none", reached |-> 0, switches |-> 0,
     is_new |-> FALSE, before |-> NoMetadata, ctx_before |-> 1,
     r |-> [kind |-> "ok", ctx |-> 1], s |-> "ok",
     path |-> "none", entity |-> None, resolved |-> FALSE, switch |-> None,
     raised |-> "none", logs |-> <<>>]

-----------------------------------------------------------------------------
(***************************************************************************)
(* Panel support: show_panel (engine.py lines 174-246)                     *)
(*                                                                         *)
(* A call of show_panel is four consecutive steps of one synchronous call; *)
(* pc is the position between them, and nothing else runs until the call   *)
(* has returned or raised.                                                 *)
(***************************************************************************)
MaxWidgets == 3     \* the widgets that get constructed in one run: 1..MaxWidgets

WidgetIds == 1..MaxWidgets
PanelIds == {"a", "b"}

\* The widget classes a caller passes: the constructor of "Named" sets the
\* objectName of the instance to the panel's widget id, the constructor of
\* "Plain" leaves the objectName Qt gives a new widget, the empty one.
WidgetClasses == {"Named", "Plain"}

\* line 206: widget_id = SHOTGUN_APP_PALETTE_PREFIX + panel_id
SHOTGUN_APP_PALETTE_PREFIX == "panel_"
WidgetName(panel_id) == <<SHOTGUN_APP_PALETTE_PREFIX, panel_id>>

\* line 224: widget_class(*args, **kwargs); show_panel sets no objectName
ConstructedName(cls, panel_id) ==
    IF cls = "Named" THEN WidgetName(panel_id) ELSE <<>>

FreeWidget == [state |-> "free", name |-> <<>>, parent |-> "none"]

Live(w) == widgets[w].state = "live"

\* lines 211-216: the live widgets whose objectName is the widget id
Matching(panel_id) ==
    {w \in WidgetIds : Live(w) /\ widgets[w].name = WidgetName(panel_id)}

\* mari.palettes.find(name): the index of the palette of that name, 0 if none
PaletteFind(name) ==
    IF \E i \in 1..Len(palettes) : palettes[i].name = name
    THEN CHOOSE i \in 1..Len(palettes) :
            /\ palettes[i].name = name
            /\ \A j \in 1..(i - 1) : palettes[j].name # name
    ELSE 0

RemoveAt(seq, i) ==
    [j \in 1..(Len(seq) - 1) |-> IF j < i THEN seq[j] ELSE seq[j + 1]]

\* The palettes that hold widget w as their body
Owners(w) == {i \in 1..Len(palettes) : palettes[i].body = Some(w)}

\* QWidget.setParent(main_window): the widget leaves the palette it was in
Reparented(ps, w) ==
    [i \in 1..Len(ps) |->
        IF ps[i].body = Some(w) THEN [ps[i] EXCEPT !.body = None] ELSE ps[i]]

IdleFrame ==
    [panel_id |-> "", cls |-> "", shotgun_widget |-> None, found |-> FALSE,
     removed |-> FALSE, result |-> "none"]

NoPanel == [constructed |-> 0, returned |-> {}, calls |-> 0]

\* line 195, mutated: only hosts below major version 3 are refused
RefusesVersionBelow3(v) == v.major < 3

\* line 195: if mari_version.major() < 4: raise AttributeError(...)
RefusesVersion(v) == v.major < 4

\* line 218, mutated: the missing main window goes unnoticed
LacksMainWindowIgnored(found) == FALSE

\* line 218: if not main_window: raise Exception(...)
LacksMainWindow(found) == ~found

\* lines 194-219: the version check, then the scan of all widgets for the
\* panel widget and the main window.  The call is only started while a widget
\* identity is left for it to construct.
show_panel_scan(panel_id, cls) ==
    /\ pc = "idle"
    /\ \/ Matching(panel_id) # {}
       \/ \E w \in WidgetIds : widgets[w].state = "free"
    /\ IF RefusesVersion(mari_version)
       THEN /\ frame' = [IdleFrame EXCEPT !.panel_id = panel_id, !.cls = cls,
                                          !.result = "AttributeError"]
            /\ pc' = "idle"
       ELSE IF LacksMainWindow(main_window)
       THEN /\ frame' = [IdleFrame EXCEPT !.panel_id = panel_id, !.cls = cls,
                                          !.result = "Exception"]
            /\ pc' = "idle"
       ELSE /\ \/ /\ Matching(panel_id) = {}
                  /\ frame' = [IdleFrame EXCEPT !.panel_id = panel_id,
                                                !.cls = cls,
                                                !.result = "running"]
               \/ \E w \in Matching(panel_id) :
                     frame' = [IdleFrame EXCEPT !.panel_id = panel_id,
                                                !.cls = cls,
                                                !.shotgun_widget = Some(w),
                                                !.found = TRUE,
                                                !.result = "running"]
            /\ pc' = "scanned"
    /\ UNCHANGED <<widgets, main_window, palettes, panel>>
    /\ UNCHANGED <<projectVars, versionVars, startupVars, loggingVars, lifecycleVars>>

\* lines 221-230, mutated: setParent is only called for a widget just created
show_panel_reparent_new_only ==
    /\ pc = "scanned"
    /\ IF ~IsSome(frame.shotgun_widget)
       THEN \E w \in WidgetIds :
              /\ widgets[w].state = "free"
              /\ \A v \in WidgetIds : widgets[v].state = "free" => w <= v
              /\ widgets' = [widgets EXCEPT ![w] =
                    [state |-> "live",
                     name |-> ConstructedName(frame.cls, frame.panel_id),
                     parent |-> "main"]]
              /\ frame' = [frame EXCEPT !.shotgun_widget = Some(w)]
              /\ panel' = [panel EXCEPT ![frame.panel_id].constructed = @ + 1]
              /\ UNCHANGED palettes
       ELSE UNCHANGED <<widgets, frame, panel, palettes>>
    /\ pc' = "parented"
    /\ UNCHANGED main_window
    /\ UNCHANGED <<projectVars, versionVars, startupVars, loggingVars, lifecycleVars>>

\* lines 221-230: construct the widget when the scan found none, then parent
\* the widget, new or found, under the main window
show_panel_reparent ==
    /\ pc = "scanned"
    /\ IF ~IsSome(frame.shotgun_widget)
       THEN \E w \in WidgetIds :
              /\ widgets[w].state = "free"
              /\ \A v \in WidgetIds : widgets[v].state = "free" => w <= v
              /\ widgets' = [widgets EXCEPT ![w] =
                    [state |-> "live",
                     name |-> ConstructedName(frame.cls, frame.panel_id),
                     parent |-> "main"]]
              /\ frame' = [frame EXCEPT !.shotgun_widget = Some(w)]
              /\ panel' = [panel EXCEPT ![frame.panel_id].constructed = @ + 1]
              /\ UNCHANGED palettes
       ELSE LET w == Val(frame.shotgun_widget)
            IN /\ widgets' = [widgets EXCEPT ![w].parent = "main"]
               /\ palettes' = Reparented(palettes, w)
               /\ UNCHANGED <<frame, panel>>
    /\ pc' = "parented"
    /\ UNCHANGED main_window
    /\ UNCHANGED <<projectVars, versionVars, startupVars, loggingVars, lifecycleVars>>

\* lines 232-235, mutated: the existing palette is left in place
show_panel_remove_skipped ==
    /\ pc = "parented"
    /\ pc' = "removed"
    /\ UNCHANGED <<widgets, main_window, palettes, frame, panel>>
    /\ UNCHANGED <<projectVars, versionVars, startupVars, loggingVars, lifecycleVars>>

\* lines 232-235: if a palette of this panel id exists, remove it; Qt deletes
\* the widgets the palette still parents
show_panel_remove ==
    /\ pc = "parented"
    /\ LET i == PaletteFind(frame.panel_id)
       IN IF i # 0
          THEN /\ palettes' = RemoveAt(palettes, i)
               /\ widgets' = [w \in WidgetIds |->
                    IF palettes[i].body = Some(w)
                    THEN [widgets[w] EXCEPT !.state = "deleted",
                                            !.parent = "none"]
                    ELSE widgets[w]]
               /\ frame' = [frame EXCEPT !.removed = TRUE]
          ELSE UNCHANGED <<palettes, widgets, frame>>
    /\ pc' = "removed"
    /\ UNCHANGED <<main_window, panel>>
    /\ UNCHANGED <<projectVars, versionVars, startupVars, loggingVars, lifecycleVars>>

\* lines 237-246: create the new palette around the widget, title it, show it
\* in front and return the widget
show_panel_create ==
    /\ pc = "removed"
    /\ LET w == Val(frame.shotgun_widget)
       IN /\ palettes' = Append(Reparented(palettes, w),
                                [name |-> frame.panel_id, body |-> Some(w)])
          /\ widgets' = [widgets EXCEPT ![w].parent = "palette"]
          /\ panel' = [panel EXCEPT
                ![frame.panel_id].returned = @ \cup {w},
                ![frame.panel_id].calls = IF @ < 2 THEN @ + 1 ELSE @]
    /\ frame' = [frame EXCEPT !.result = "returned"]
    /\ pc' = "idle"
    /\ UNCHANGED main_window
    /\ UNCHANGED <<projectVars, versionVars, startupVars, loggingVars, lifecycleVars>>

-----------------------------------------------------------------------------
(***************************************************************************)
(* pre_app_init (engine.py lines 74-113)                                   *)
(***************************************************************************)
MaxMajor == 5       \* host versions: major in 0..MaxMajor
MaxMinor == 7       \*                minor in 0..MaxMinor
MaxRevision == 2    \*                revision in 0..MaxRevision

HostVersions ==
    [major : 0..MaxMajor, minor : 0..MaxMinor, revision : 0..MaxRevision]

\* line 81: completely unsupported below this
MIN_VERSION == <<2, 6, 1>>
\* line 82: untested above this so display a warning
MAX_VERSION == <<4, 2>>

\* lines 85-86, mutated: the minor version is compared with <=
IsUnsupportedStrict(v) ==
    \/ v.major < MIN_VERSION[1]
    \/ (v.major = MIN_VERSION[1] /\ v.minor <= MIN_VERSION[2])

\* lines 85-86: the major and the minor version against MIN_VERSION
IsUnsupported(v) ==
    \/ v.major < MIN_VERSION[1]
    \/ (v.major = MIN_VERSION[1] /\ v.minor < MIN_VERSION[2])

\* lines 92-93: the major and the minor version against MAX_VERSION
IsUntested(v) ==
    \/ v.major > MAX_VERSION[1]
    \/ (v.major = MAX_VERSION[1] /\ v.minor > MAX_VERSION[2])

\* lines 100-102: the warning dialog is shown the first time
ShowsVersionDialog(v) ==
    /\ has_ui
    /\ ~environ
    /\ v.major >= compatibility_dialog_min_version

\* line 105, mutated: the environment variable is not set
MarkShownForgotten(env, shown) == env

\* line 105: os.environ["SGTK_MARI_VERSION_WARNING_SHOWN"] = "1", when the
\* dialog has been shown
MarkShown(env, shown) == env \/ shown

MaxDialogs == 2     \* constructions stop once this many dialogs were shown

NoInit ==
    [called |-> FALSE, raised |-> "none", dialog |-> FALSE, warned |-> FALSE,
     managers |-> FALSE]

\* The construction of an engine: the version check, then the managers.
pre_app_init ==
    /\ version_dialogs < MaxDialogs
    /\ IF IsUnsupported(mari_version)
       THEN /\ init' = [NoInit EXCEPT !.called = TRUE, !.raised = "TankError"]
            /\ UNCHANGED <<environ, version_dialogs>>
       ELSE IF IsUntested(mari_version)
       THEN /\ init' = [called |-> TRUE, raised |-> "none",
                        dialog |-> ShowsVersionDialog(mari_version),
                        warned |-> TRUE, managers |-> TRUE]
            /\ environ' = MarkShown(environ, ShowsVersionDialog(mari_version))
            /\ version_dialogs' =
                  IF ShowsVersionDialog(mari_version)
                  THEN version_dialogs + 1 ELSE version_dialogs
       ELSE /\ init' = [NoInit EXCEPT !.called = TRUE, !.managers = TRUE]
            /\ UNCHANGED <<environ, version_dialogs>>
    /\ UNCHANGED <<mari_version, has_ui, compatibility_dialog_min_version>>
    /\ UNCHANGED <<projectVars, panelVars, startupVars, loggingVars, lifecycleVars>>

-----------------------------------------------------------------------------
(***************************************************************************)
(* _run_app_instance_commands (engine.py lines 478-538)                    *)
(***************************************************************************)
MaxEntries == 2     \* the length of the 'run_at_startup' list: 0..MaxEntries

CommandNames == {"x", "y", "doit"}
AppInstances == {"A", "B", "C"}
\* the app instances that register commands; "C" registers nothing
LoadedApps == {"A", "B"}
\* the 'name' of a run_at_startup entry: '' asks for all commands
SettingNames == {"", "x", "doit"}

Entries == [app_instance : AppInstances, name : SettingNames]

StartupSettings == UNION {[1..n -> Entries] : n \in 0..MaxEntries}

\* The orders a dictionary can enumerate its keys in
DictOrders ==
    {s \in [1..Cardinality(CommandNames) -> CommandNames] :
        \A i, j \in DOMAIN s : i # j => s[i] # s[j]}

\* lines 485-491: the command dictionary of an app instance, as the names it
\* enumerates; it is empty exactly when app_instance_commands has no such key
command_dict(app) ==
    SelectSeq(dict_order, LAMBDA n : commands[n].app = Some(app))

InSeq(x, seq) == \E i \in 1..Len(seq) : seq[i] = x

\* lines 509-531, mutated: an empty name runs the first command only
EntryCommandsFirstOnly(e) ==
    LET d == command_dict(e.app_instance)
    IN IF e.name = ""
       THEN <<Head(d)>>
       ELSE IF InSeq(e.name, d) THEN <<e.name>> ELSE <<>>

\* lines 509-531: the commands an entry of a known app instance appends
EntryCommands(e) ==
    LET d == command_dict(e.app_instance)
    IN IF e.name = ""
       THEN d
       ELSE IF InSeq(e.name, d) THEN <<e.name>> ELSE <<>>

\* lines 504-507 and 526-531, mutated: an unknown command name goes unwarned
EntryWarningAppOnly(e) ==
    LET d == command_dict(e.app_instance)
    IN IF d = <<>>
       THEN Some([kind |-> "not_installed", app_instance |-> e.app_instance,
                  name |-> e.name])
       ELSE None

\* lines 504-507 and 526-531: the warning an entry logs, if any
EntryWarning(e) ==
    LET d == command_dict(e.app_instance)
    IN IF d = <<>>
       THEN Some([kind |-> "not_installed", app_instance |-> e.app_instance,
                  name |-> e.name])
       ELSE IF e.name # "" /\ ~InSeq(e.name, d)
       THEN Some([kind |-> "unknown_command", app_instance |-> e.app_instance,
                  name |-> e.name])
       ELSE None

\* lines 493-531: the loop over the setting
RECURSIVE ResolveEntries(_, _)
ResolveEntries(entries, acc) ==
    IF entries = <<>>
    THEN acc
    ELSE LET e == Head(entries)
             d == command_dict(e.app_instance)
         IN ResolveEntries(Tail(entries),
              IF d = <<>>
              THEN [acc EXCEPT !.warnings = @ \o EntryWarning(e)]
              ELSE [commands_to_run |-> acc.commands_to_run \o EntryCommands(e),
                    warnings |-> acc.warnings \o EntryWarning(e)])

\* lines 537-538, mutated: each command runs inside a try/except that logs
RECURSIVE InvokeAllGuarded(_, _, _)
InvokeAllGuarded(cmds, raising, done) ==
    IF cmds = <<>>
    THEN [invoked |-> done, raised |-> FALSE]
    ELSE InvokeAllGuarded(Tail(cmds), raising, Append(done, Head(cmds)))

\* lines 537-538: for command in commands_to_run: command(); raising is the
\* command that raises when it is called, if there is one
RECURSIVE InvokeAll(_, _, _)
InvokeAll(cmds, raising, done) ==
    IF cmds = <<>>
    THEN [invoked |-> done, raised |-> FALSE]
    ELSE IF raising = Some(Head(cmds))
    THEN [invoked |-> Append(done, Head(cmds)), raised |-> TRUE]
    ELSE InvokeAll(Tail(cmds), raising, Append(done, Head(cmds)))

NoDispatch ==
    [called |-> FALSE, commands_to_run |-> <<>>, invoked |-> <<>>,
     warnings |-> <<>>, raised |-> FALSE, raising |-> None]

\* What one run of the dispatch leaves behind, when raising is the command
\* that raises (None: none does).  The record keeps the raising command if it
\* is one of the commands to run.
Dispatched(raising) ==
    LET res == ResolveEntries(run_at_startup,
                              [commands_to_run |-> <<>>, warnings |-> <<>>])
        inv == InvokeAll(res.commands_to_run, raising, <<>>)
    IN [called |-> TRUE,
        commands_to_run |-> res.commands_to_run,
        invoked |-> inv.invoked,
        warnings |-> res.warnings,
        raised |-> inv.raised,
        raising |-> IF IsSome(raising)
                         /\ InSeq(Val(raising), res.commands_to_run)
                    THEN raising ELSE None]

\* The startup dispatch, with the command that raises (None: none does).
run_app_instance_commands(raising) ==
    /\ dispatch' = Dispatched(raising)
    /\ UNCHANGED <<commands, dict_order, run_at_startup>>
    /\ UNCHANGED <<projectVars, panelVars, versionVars, loggingVars, lifecycleVars>>

-----------------------------------------------------------------------------
(***************************************************************************)
(* The engine's life cycle (engine.py, post_app_init, post_context_change, *)
(* destroy_engine, create_menu)                                            *)
(***************************************************************************)
\* The menus of the host, the generator the engine holds and the calls made
MenuState(n, g, ev) == [menus |-> n, generator |-> g, events |-> ev]

\* tk_mari.MenuGenerator.destroy_menu: the generator's menu leaves the host
destroy_menu(m) ==
    [menus |-> IF m.generator = Some("live") THEN m.menus - 1 ELSE m.menus,
     generator |-> Some("destroyed"),
     events |-> Append(m.events, "destroy_menu")]

\* lines 164-169: with a UI, a new generator replaces the engine's and
\* creates its menu
create_menu(m, ui) ==
    IF ui
    THEN [menus |-> m.menus + 1,
          generator |-> Some("live"),
          events |-> Append(m.events, "create_menu")]
    ELSE m

\* lines 136-140, mutated: the old menu is left in place
ContextChangeMenuKept(m, ui) == create_menu(m, ui)

\* lines 136-140: if self.has_ui: destroy_menu(); then self.create_menu()
ContextChangeMenu(m, ui) ==
    create_menu(IF ui THEN destroy_menu(m) ELSE m, ui)

\* lines 127-141: the menu is replaced, then the startup commands run
PostContextChange(m, ui) ==
    LET c == ContextChangeMenu(m, ui)
    IN [c EXCEPT !.events = Append(@, "run_startup")]

\* line 121: mari.utils.connect(mari.projects.opened, handler)
connect(n) == n + 1

\* line 154: mari.utils.disconnect(mari.projects.opened, handler)
disconnect(n) == IF n > 0 THEN n - 1 ELSE 0

\* lines 127-141, mutated: the context change connects the handler again
ContextChangeConnectsAgain(n) == connect(n)

\* lines 127-141: post_context_change makes no call of mari.utils.connect
ContextChangeConnections(n) == n

NoLife == [op |-> "none", events |-> <<>>, raised |-> FALSE]

\* lines 115-125: the framework calls post_app_init once the apps are loaded
post_app_init(raising) ==
    /\ phase = "created"
    /\ LET m == create_menu(MenuState(menus, menu_generator, <<>>), has_ui)
           d == Dispatched(raising)
       IN /\ menus' = m.menus
          /\ menu_generator' = m.generator
          /\ connected' = connect(connected)
          /\ dispatch' = d
          /\ life' = [op |-> "post_app_init",
                      events |-> m.events \o <<"connect", "run_startup">>,
                      raised |-> d.raised]
    /\ phase' = "running"
    /\ UNCHANGED <<commands, dict_order, run_at_startup>>
    /\ UNCHANGED <<projectVars, panelVars, versionVars, loggingVars>>

\* lines 127-141: the framework has changed the context to new_context and
\* calls post_context_change
post_context_change(new_context, raising) ==
    /\ phase = "running"
    /\ LET m == PostContextChange(MenuState(menus, menu_generator, <<>>),
                                  has_ui)
           d == Dispatched(raising)
       IN /\ menus' = m.menus
          /\ menu_generator' = m.generator
          /\ dispatch' = d
          /\ life' = [op |-> "post_context_change", events |-> m.events,
                      raised |-> d.raised]
    /\ context' = new_context
    /\ connected' = ContextChangeConnections(connected)
    /\ UNCHANGED <<project, last, phase>>
    /\ UNCHANGED <<commands, dict_order, run_at_startup>>
    /\ UNCHANGED <<panelVars, versionVars, loggingVars>>

\* lines 143-155: the framework destroys the engine
destroy_engine ==
    /\ phase = "running"
    /\ LET m0 == MenuState(menus, menu_generator, <<>>)
           m == IF has_ui THEN destroy_menu(m0) ELSE m0
       IN /\ menus' = m.menus
          /\ menu_generator' = m.generator
          /\ life' = [op |-> "destroy_engine",
                      events |-> Append(m.events, "disconnect"),
                      raised |-> FALSE]
    /\ connected' = disconnect(connected)
    /\ phase' = "destroyed"
    /\ UNCHANGED <<projectVars, panelVars, versionVars, startupVars,
                   loggingVars>>

\* The handler has not run: the project and the context as they are
NoOutcome(p, cur) == Outcome("none", p, None, FALSE, None, "none", <<>>, cur)

RECURSIVE Deliver(_, _, _, _, _)
\* mari.projects.opened(opened_project, is_new) calls the handler once for
\* each of its n connections.  A context switch that succeeds runs
\* post_context_change before change_context returns (line 447).
Deliver(n, is_new, r, s, st) ==
    IF n = 0
    THEN st
    ELSE LET o == Handle(st.o.project, is_new, st.o.ctx, r, s)
         IN Deliver(n - 1, is_new, r, s,
                    [o |-> o,
                     m |-> IF o.path = "switched"
                           THEN PostContextChange(st.m, has_ui)
                           ELSE st.m,
                     reached |-> st.reached + 1,
                     switches |-> st.switches + Len(o.switch)])

\* The host fires mari.projects.opened(opened_project, is_new).
on_project_opened(is_new, r, s) ==
    LET st == Deliver(connected, is_new, r, s,
                      [o |-> NoOutcome(project, context),
                       m |-> MenuState(menus, menu_generator, <<>>),
                       reached |-> 0, switches |-> 0])
        o == st.o
        m == st.m
    IN /\ project' = o.project
       /\ context' = o.ctx
       /\ last' = [op |-> "opened", reached |-> st.reached,
                   switches |-> st.switches,
                   is_new |-> is_new, before |-> project,
                   ctx_before |-> context, r |-> r, s |-> s,
                   path |-> o.path, entity |-> o.entity,
                   resolved |-> o.resolved, switch |-> o.switch,
                   raised |-> o.raised, logs |-> EmitAll(o.levels)]
       /\ menus' = m.menus
       /\ menu_generator' = m.generator
       /\ dispatch' = IF m.events # <<>> THEN Dispatched(None) ELSE dispatch
       /\ life' = [op |-> "on_project_opened", events |-> m.events,
                   raised |-> o.raised # "none"]
       /\ UNCHANGED <<phase, connected>>
       /\ UNCHANGED <<commands, dict_order, run_at_startup>>
       /\ UNCHANGED <<panelVars, versionVars, loggingVars>>

-----------------------------------------------------------------------------
(***************************************************************************)
(* Specifications: one per part of the engine; the variables of the other  *)
(* parts rest at the values of a fresh engine.                             *)
(***************************************************************************)
ProjectRest == project = NoMetadata /\ context = 1 /\ last = NoCall

PanelRest ==
    /\ widgets = [w \in WidgetIds |-> FreeWidget]
    /\ main_window = TRUE
    /\ palettes = <<>>
    /\ pc = "idle"
    /\ frame = IdleFrame
    /\ panel = [p \in PanelIds |-> NoPanel]

VersionRest ==
    /\ mari_version = [major |-> 4, minor |-> 0, revision |-> 0]
    /\ has_ui = TRUE
    /\ environ = FALSE
    /\ compatibility_dialog_min_version = 0
    /\ init = NoInit
    /\ version_dialogs = 0

LoggingRest == log_out = NoLogOut

\* An engine the framework has constructed and not yet started
LifecycleRest ==
    /\ phase = "created"
    /\ menus = 0
    /\ menu_generator = None
    /\ connected = 0
    /\ life = NoLife

StartupRest ==
    /\ commands = [n \in CommandNames |-> [app |-> None]]
    /\ dict_order = <<"x", "y", "doit">>
    /\ run_at_startup = <<>>
    /\ dispatch = NoDispatch

\* ---- the project-opened handler, on every project and in every context,
\* on an engine that post_app_init has started with a UI and no startup
\* commands
InitProject ==
    /\ project \in Metadata
    /\ context \in Contexts
    /\ last = NoCall
    /\ commands = [n \in CommandNames |-> [app |-> None]]
    /\ dict_order = <<"x", "y", "doit">>
    /\ run_at_startup = <<>>
    /\ dispatch = [NoDispatch EXCEPT !.called = TRUE]
    /\ phase = "running"
    /\ menus = 1
    /\ menu_generator = Some("live")
    /\ connected = 1
    /\ life = [op |-> "post_app_init",
               events |-> <<"create_menu", "connect", "run_startup">>,
               raised |-> FALSE]
    /\ PanelRest /\ VersionRest /\ LoggingRest

NextProject ==
    \E is_new \in BOOLEAN, r \in ResolverOutcomes, s \in SwitchOutcomes :
        on_project_opened(is_new, r, s)

SpecProject == InitProject /\ [][NextProject]_vars

\* ---- show_panel, on a host of major version 3 or 4, with or without a
\* main window
InitPanel ==
    /\ widgets = [w \in WidgetIds |-> FreeWidget]
    /\ main_window \in BOOLEAN
    /\ palettes = <<>>
    /\ pc = "idle"
    /\ frame = IdleFrame
    /\ panel = [p \in PanelIds |-> NoPanel]
    /\ mari_version \in {[major |-> m, minor |-> 0, revision |-> 0] : m \in {3, 4}}
    /\ has_ui = TRUE
    /\ environ = FALSE
    /\ compatibility_dialog_min_version = 0
    /\ init = NoInit
    /\ version_dialogs = 0
    /\ ProjectRest /\ StartupRest /\ LoggingRest /\ LifecycleRest

NextPanel ==
    \/ \E panel_id \in PanelIds, cls \in WidgetClasses :
          show_panel_scan(panel_id, cls)
    \/ show_panel_reparent
    \/ show_panel_remove
    \/ show_panel_create

SpecPanel == InitPanel /\ [][NextPanel]_vars

\* ---- pre_app_init, on every host version
InitVersion ==
    /\ mari_version \in HostVersions
    /\ has_ui \in BOOLEAN
    /\ environ \in BOOLEAN
    /\ compatibility_dialog_min_version \in {0, MaxMajor}
    /\ init = NoInit
    /\ version_dialogs = 0
    /\ ProjectRest /\ PanelRest /\ StartupRest /\ LoggingRest /\ LifecycleRest

NextVersion == pre_app_init

SpecVersion == InitVersion /\ [][NextVersion]_vars

\* ---- the startup dispatch, on every registry and every setting
InitStartup ==
    /\ commands \in [CommandNames -> [app : Opt(LoadedApps)]]
    /\ dict_order \in DictOrders
    /\ run_at_startup \in StartupSettings
    /\ dispatch = NoDispatch
    /\ ProjectRest /\ PanelRest /\ VersionRest /\ LoggingRest /\ LifecycleRest

NextStartup ==
    \E raising \in Opt(CommandNames) : run_app_instance_commands(raising)

SpecStartup == InitStartup /\ [][NextStartup]_vars

\* ---- the logging bridge, on every record
InitLogging ==
    /\ log_out = NoLogOut
    /\ ProjectRest /\ PanelRest /\ VersionRest /\ StartupRest /\ LifecycleRest

NextLogging == \E record \in LogRecords : emit_log_record(record)

SpecLogging == InitLogging /\ [][NextLogging]_vars

\* ---- the life cycle of one engine, with and without a UI, on every
\* 'run_at_startup' setting over one command registry
InitLifecycle ==
    /\ LifecycleRest
    /\ project = NoMetadata
    /\ context \in Contexts
    /\ last = NoCall
    /\ commands = [n \in CommandNames |->
                      [app |-> IF n = "y" THEN Some("B") ELSE Some("A")]]
    /\ dict_order = <<"x", "y", "doit">>
    /\ run_at_startup \in StartupSettings
    /\ dispatch = NoDispatch
    /\ mari_version = [major |-> 4, minor |-> 0, revision |-> 0]
    /\ has_ui \in BOOLEAN
    /\ environ = FALSE
    /\ compatibility_dialog_min_version = 0
    /\ init = NoInit
    /\ version_dialogs = 0
    /\ PanelRest /\ LoggingRest

NextLifecycle ==
    \/ \E raising \in Opt(CommandNames) : post_app_init(raising)
    \/ \E new_context \in Contexts, raising \in Opt(CommandNames) :
          post_context_change(new_context, raising)
    \/ destroy_engine

SpecLifecycle == InitLifecycle /\ [][NextLifecycle]_vars

\* The projects that hold at most a task and a version
TaskProjects ==
    {p \in Metadata :
        p.entity_id = None /\ p.entity_type = None /\ p.project_id = None}

\* ---- the project-opened event over the life of one engine that runs no
\* startup commands, with and without a UI
InitConnection ==
    /\ LifecycleRest
    /\ project \in TaskProjects
    /\ context \in Contexts
    /\ last = NoCall
    /\ mari_version = [major |-> 4, minor |-> 0, revision |-> 0]
    /\ has_ui \in BOOLEAN
    /\ environ = FALSE
    /\ compatibility_dialog_min_version = 0
    /\ init = NoInit
    /\ version_dialogs = 0
    /\ PanelRest /\ StartupRest /\ LoggingRest

NextConnection ==
    \/ post_app_init(None)
    \/ \E new_context \in Contexts : post_context_change(new_context, None)
    \/ destroy_engine
    \/ \E is_new \in BOOLEAN, r \in ResolverOutcomes, s \in SwitchOutcomes :
          on_project_opened(is_new, r, s)

SpecConnection == InitConnection /\ [][NextConnection]_vars

-----------------------------------------------------------------------------
(***************************************************************************)
(* Properties of show_panel (checked under SpecPanel)                      *)
(***************************************************************************)
PalettesNamed(panel_id) ==
    {i \in 1..Len(palettes) : palettes[i].name = panel_id}

\* C1: however often show_panel is called with one panel_id, the widget is
\* constructed on the first call only and every call returns that one widget.
C1_ConstructedOnce ==
    \A p \in PanelIds :
        /\ panel[p].constructed <= 1
        /\ Cardinality(panel[p].returned) <= 1

\* C9: the host holds at most one palette per panel_id at any time, and
\* between calls exactly one for each panel_id that was shown and none for
\* the others.
C9_OnePalettePerPanel ==
    \A p \in PanelIds :
        /\ Cardinality(PalettesNamed(p)) <= 1
        /\ pc = "idle" =>
              Cardinality(PalettesNamed(p)) =
                  (IF panel[p].returned # {} THEN 1 ELSE 0)

\* C9 witness: a panel was shown again, its palette was removed on the way,
\* and one palette of that name is there
C9_Witness ==
    /\ pc = "idle"
    /\ frame.result = "returned"
    /\ frame.removed
    /\ panel[frame.panel_id].calls = 2
    /\ Cardinality(PalettesNamed(frame.panel_id)) = 1

\* C10: when show_panel is about to remove the existing palette, the widget of
\* the call (new or found) is parented under the main window and no palette
\* holds it; once the palette is removed the widget is still alive.
C10_ReparentedBeforeRemove ==
    /\ pc = "parented" =>
          /\ widgets[Val(frame.shotgun_widget)].parent = "main"
          /\ Owners(Val(frame.shotgun_widget)) = {}
    /\ pc = "removed" => Live(Val(frame.shotgun_widget))

\* C10 witness: the scan found the widget inside the existing palette, the
\* palette has been removed and the widget lives on
C10_Witness ==
    /\ pc = "removed"
    /\ frame.found
    /\ frame.removed
    /\ Live(Val(frame.shotgun_widget))

\* No call of show_panel has had an effect on the widgets or the palettes
PanelsUntouched ==
    /\ widgets = [w \in WidgetIds |-> FreeWidget]
    /\ palettes = <<>>
    /\ panel = [p \in PanelIds |-> NoPanel]
    /\ pc = "idle"

\* C11: on a host below major version 4 every call of show_panel raises the
\* AttributeError and scans, constructs, reparents, removes and creates
\* nothing: the widgets and the palettes stay as they were.
C11_RefusedBelow4 ==
    mari_version.major < 4 =>
        /\ PanelsUntouched
        /\ frame.result \in {"none", "AttributeError"}
        /\ frame.shotgun_widget = None /\ ~frame.found /\ ~frame.removed

\* C11 witness: show_panel was called on Mari 3 and raised
C11_Witness ==
    mari_version.major = 3 /\ frame.result = "AttributeError"

\* C16: on a host of major version 4 or above without a main window every
\* call of show_panel raises before any effect: no widget is constructed or
\* reparented and no palette is removed or created.
C16_NoMainWindowNoEffect ==
    mari_version.major >= 4 /\ ~main_window =>
        /\ PanelsUntouched
        /\ frame.result \in {"none", "Exception"}
        /\ ~frame.removed

\* C16 witness: show_panel was called without a main window and raised
C16_Witness ==
    mari_version.major >= 4 /\ ~main_window /\ frame.result = "Exception"

-----------------------------------------------------------------------------
(***************************************************************************)
(* Properties of the project-opened handler (checked under SpecProject)    *)
(***************************************************************************)
Opened == last.op = "opened"

\* The metadata holds what an entity reference can be made of
HasReference(md) ==
    \/ md.task_id # None
    \/ (md.entity_id # None /\ md.entity_type # None)
    \/ md.project_id # None

\* The four abort paths, told from the handler's inputs
AbortNew == last.is_new
AbortNoMetadata == ~last.is_new /\ last.before = NoMetadata
AbortNoReference ==
    ~last.is_new /\ last.before # NoMetadata /\ ~HasReference(last.before)
CallsResolver ==
    ~last.is_new /\ last.before # NoMetadata /\ HasReference(last.before)
AbortResolver == CallsResolver /\ last.r.kind = "TankError"

Dialogs == SumDialogs(last.logs)

\* C2: the handler never raises out to its caller, whatever the project, the
\* metadata, the resolver's outcome and the context switch's outcome.
C2_NeverRaises == Opened => last.raised = "none"

\* C2 amended: an exception leaves the handler exactly when the resolver
\* raises something other than a TankError or the requested context switch
\* raises; on every abort path, a TankError included, it returns normally.
C2_RaisesOnlyUncaught ==
    Opened =>
        (last.raised # "none") =
            (/\ CallsResolver
             /\ \/ last.r.kind = "Error"
                \/ (last.r.kind = "ok" /\ last.r.ctx # last.ctx_before
                        /\ last.s = "raise"))

\* C2 witness: the resolver raised a TankError and the handler returned
C2_Witness ==
    Opened /\ AbortResolver /\ last.raised = "none"

\* C3: every abort path (new project, no metadata, no entity reference,
\* resolver failure) shows no dialog and leaves the context unchanged with no
\* context switch requested.
C3_AbortsSilent ==
    Opened /\ (AbortNew \/ AbortNoMetadata \/ AbortNoReference \/ AbortResolver)
        => /\ Dialogs = 0
           /\ context = last.ctx_before
           /\ last.switch = None

\* C3 amended: every abort path leaves the context unchanged with no context
\* switch requested; the new-project, no-metadata and no-reference paths show
\* no dialog, and the resolver-failure path logs one ERROR record, which the
\* logging bridge shows as one message box.
C3_AbortsKeepContext ==
    Opened =>
        /\ (AbortNew \/ AbortNoMetadata \/ AbortNoReference \/ AbortResolver)
              => (context = last.ctx_before /\ last.switch = None)
        /\ (AbortNew \/ AbortNoMetadata \/ AbortNoReference) => Dialogs = 0
        /\ AbortResolver =>
              /\ Dialogs = 1
              /\ last.logs[Len(last.logs)].levelno = ERROR

\* C3 witness: the resolver failed on a project whose context would differ
C3_Witness ==
    Opened /\ AbortResolver /\ Dialogs = 1 /\ context = last.ctx_before

\* C4: the entity reference is {Task, task_id} when task_id is present, else
\* {entity_type, entity_id} when both are present, else {Project, project_id}
\* when project_id is present, else there is none and no context switch.
C4_ReferencePriority ==
    Opened /\ ~last.is_new =>
        LET md == last.before
        IN IF md.task_id # None
           THEN last.entity = Some([type |-> "Task", id |-> Val(md.task_id)])
           ELSE IF md.entity_id # None /\ md.entity_type # None
           THEN last.entity = Some([type |-> Val(md.entity_type),
                                    id |-> Val(md.entity_id)])
           ELSE IF md.project_id # None
           THEN last.entity = Some([type |-> "Project",
                                    id |-> Val(md.project_id)])
           ELSE /\ last.entity = None
                /\ last.switch = None
                /\ context = last.ctx_before

\* C4 witness: task_id wins over an entity and a project that are present too
C4_Witness ==
    /\ Opened /\ ~last.is_new
    /\ last.before.task_id = Some(2)
    /\ last.before.entity_id = Some(1)
    /\ last.before.entity_type # None
    /\ last.before.project_id = Some(1)
    /\ last.entity = Some([type |-> "Task", id |-> 2])

\* C5: after the handler has run, a project without a version has version 1
\* and a project with a version has kept it.
C5_VersionStamped ==
    Opened =>
        IF last.before.version = None
        THEN project.version = Some(1)
        ELSE project.version = last.before.version

\* C5 amended: after the handler has run on a project that is not new and
\* has metadata but no version, the project has version 1; a project that is
\* new or has no metadata at all gets none; an existing version is kept.
C5_VersionStampedWhenManaged ==
    Opened =>
        IF last.before.version # None
        THEN project.version = last.before.version
        ELSE IF ~last.is_new /\ last.before # NoMetadata
        THEN project.version = Some(1)
        ELSE project.version = None

\* C5 witness: a project with a task but no version was stamped
C5_Witness ==
    /\ Opened /\ ~last.is_new
    /\ last.before.version = None
    /\ last.before.task_id # None
    /\ project.version = Some(1)

\* C6: opening a project without metadata, new or not, resolves no context,
\* requests no context switch and leaves the context as it was.
C6_NoMetadataNoSwitch ==
    Opened /\ last.before = NoMetadata =>
        /\ ~last.resolved
        /\ last.switch = None
        /\ context = last.ctx_before

\* C6 witness: such a project was opened as not new, while the resolver would
\* have answered with another context
C6_Witness ==
    /\ Opened /\ ~last.is_new /\ last.before = NoMetadata
    /\ last.r.kind = "ok" /\ last.r.ctx # last.ctx_before
    /\ context = last.ctx_before

\* C17: opening a project flagged as new does nothing: nothing is logged or
\* read, the metadata stays as it was (no version is stamped), no context is
\* resolved, no context switch is requested and nothing is raised.
C17_NewProjectNoAction ==
    Opened /\ last.is_new =>
        /\ project = last.before
        /\ last.logs = <<>>
        /\ last.entity = None
        /\ ~last.resolved
        /\ last.switch = None
        /\ last.raised = "none"
        /\ context = last.ctx_before

\* C17 witness: a new project carrying a task but no version was opened
\* while the resolver would have answered with another context
C17_Witness ==
    /\ Opened /\ last.is_new
    /\ last.before.task_id # None /\ last.before.version = None
    /\ last.r.kind = "ok" /\ last.r.ctx # last.ctx_before
    /\ project.version = None

-----------------------------------------------------------------------------
(***************************************************************************)
(* Properties of pre_app_init (checked under SpecVersion)                  *)
(***************************************************************************)
\* C7: below 2.6 the construction fails with the unsupported-version error
\* and caches no manager; from 2.6v1 up to 4.2 it raises nothing and warns
\* neither by dialog nor by log.
C7_VersionGate ==
    init.called =>
        LET v == mari_version
            below == v.major < 2 \/ (v.major = 2 /\ v.minor < 6)
            from261 == \/ v.major > 2
                       \/ (v.major = 2 /\ v.minor > 6)
                       \/ (v.major = 2 /\ v.minor = 6 /\ v.revision >= 1)
            upTo42 == v.major < 4 \/ (v.major = 4 /\ v.minor <= 2)
        IN /\ below => (init.raised = "TankError" /\ ~init.managers)
           /\ from261 /\ upTo42 =>
                 /\ init.raised = "none"
                 /\ ~init.dialog
                 /\ ~init.warned
                 /\ init.managers

\* C7 witness: the engine was constructed on 2.6v1, the lowest supported one
C7_Witness ==
    /\ init.called
    /\ mari_version = [major |-> 2, minor |-> 6, revision |-> 1]
    /\ init.raised = "none"

\* C12: over any sequence of constructions on a host above 4.2 the version
\* warning dialog is shown at most once: a step never clears the marker, a
\* step that shows the dialog starts without the marker and sets it, and yet
\* every such construction logs the warning, raises nothing and goes on to
\* cache the managers.
C12_DialogAtMostOnce ==
    [][/\ environ => environ'
       /\ version_dialogs' # version_dialogs =>
             /\ ~environ /\ environ'
             /\ version_dialogs = 0 /\ version_dialogs' = 1
             /\ init'.dialog
       /\ environ => ~init'.dialog
       /\ (mari_version.major > 4
              \/ (mari_version.major = 4 /\ mari_version.minor > 2)) =>
             /\ init'.warned
             /\ init'.raised = "none"
             /\ init'.managers]_vars

\* C12 witness: the dialog was shown once, and a later construction on the
\* same host logged the warning without showing it again
C12_Witness ==
    /\ init.called /\ init.warned /\ ~init.dialog
    /\ version_dialogs = 1
    /\ environ /\ has_ui
    /\ mari_version.major >= compatibility_dialog_min_version

\* C19: every version lexicographically below (2,6,1), 2.6v0 included, makes
\* pre_app_init raise the unsupported-version error.
C19_BelowMinimumRaises ==
    init.called =>
        LET v == mari_version
            below261 == \/ v.major < 2
                        \/ (v.major = 2 /\ v.minor < 6)
                        \/ (v.major = 2 /\ v.minor = 6 /\ v.revision < 1)
        IN below261 => init.raised = "TankError"

-----------------------------------------------------------------------------
(***************************************************************************)
(* Properties of the startup dispatch (checked under SpecStartup)          *)
(***************************************************************************)
\* The commands an app instance registered, in enumeration order
RegisteredBy(app) ==
    SelectSeq(dict_order, LAMBDA n : commands[n].app = Some(app))

\* What an entry stands for: all commands of its app instance, or the one
\* command it names if the app instance registered it
Contribution(e) ==
    IF e.name = ""
    THEN RegisteredBy(e.app_instance)
    ELSE IF \E i \in 1..Len(RegisteredBy(e.app_instance)) :
                RegisteredBy(e.app_instance)[i] = e.name
    THEN <<e.name>>
    ELSE <<>>

RECURSIVE Concatenation(_)
Concatenation(n) ==
    IF n = 0 THEN <<>>
    ELSE Concatenation(n - 1) \o Contribution(run_at_startup[n])

Expected == Concatenation(Len(run_at_startup))

\* The entries that name an app instance which registered nothing
UnknownAppEntries ==
    {i \in 1..Len(run_at_startup) :
        RegisteredBy(run_at_startup[i].app_instance) = <<>>}

NotInstalledWarnings ==
    {i \in 1..Len(dispatch.warnings) :
        dispatch.warnings[i].kind = "not_installed"}

\* C8: the dispatch invokes exactly the concatenation, in run_at_startup
\* order, of the commands of each entry; an entry of an app instance that
\* registered nothing logs a warning and contributes nothing.
C8_InvokesConcatenation ==
    dispatch.called =>
        /\ dispatch.invoked = Expected
        /\ Cardinality(NotInstalledWarnings) = Cardinality(UnknownAppEntries)

\* C8 amended: the dispatch resolves exactly that concatenation and invokes
\* it in order up to and including the first command that raises: all of it
\* when no command raises.  An entry of an app instance that registered
\* nothing logs a warning and contributes nothing.
C8_InvokesConcatenationUntilRaise ==
    dispatch.called =>
        /\ dispatch.commands_to_run = Expected
        /\ Len(dispatch.invoked) <= Len(Expected)
        /\ dispatch.invoked = SubSeq(Expected, 1, Len(dispatch.invoked))
        /\ ~dispatch.raised => dispatch.invoked = Expected
        /\ dispatch.raised => Len(dispatch.invoked) >= 1
        /\ Cardinality(NotInstalledWarnings) = Cardinality(UnknownAppEntries)

\* C8 witness: A registered x and y, B registered doit, the setting asks for
\* all of A and then doit of B, and the two commands of A ran before doit
C8_Witness ==
    /\ dispatch.called
    /\ run_at_startup = <<[app_instance |-> "A", name |-> ""],
                          [app_instance |-> "B", name |-> "doit"]>>
    /\ commands["x"].app = Some("A")
    /\ commands["y"].app = Some("A")
    /\ commands["doit"].app = Some("B")
    /\ Len(dispatch.invoked) = 3
    /\ dispatch.invoked[3] = "doit"

\* The position of the first occurrence of c in seq
FirstIndex(c, seq) ==
    CHOOSE i \in 1..Len(seq) :
        seq[i] = c /\ \A j \in 1..(i - 1) : seq[j] # c

\* The commands that get called when seq is run and raising raises: all of
\* seq, or seq up to and including the first occurrence of the raising one
UpToRaise(seq, raising) ==
    IF raising # None /\ (\E i \in 1..Len(seq) : seq[i] = Val(raising))
    THEN SubSeq(seq, 1, FirstIndex(Val(raising), seq))
    ELSE seq

\* C14: if a startup command raises, the exception leaves the dispatch, the
\* commands before it have been invoked in order, it has been invoked, and
\* none of the commands after it is invoked.
C14_RaiseHaltsSequence ==
    dispatch.called /\ dispatch.raising # None =>
        LET k == FirstIndex(Val(dispatch.raising), Expected)
        IN /\ dispatch.raised
           /\ Len(dispatch.invoked) = k
           /\ \A i \in 1..k : dispatch.invoked[i] = Expected[i]

\* C14 witness: a command raised and at least one command before it and one
\* after it were to run
C14_Witness ==
    /\ dispatch.called /\ dispatch.raised
    /\ Len(dispatch.invoked) >= 2
    /\ Len(dispatch.invoked) < Len(dispatch.commands_to_run)

\* An entry that names an unknown app instance or an unknown command name
IsBadEntry(e) ==
    \/ RegisteredBy(e.app_instance) = <<>>
    \/ (e.name # "" /\ Contribution(e) = <<>>)

IsGoodEntry(e) == ~IsBadEntry(e)

RECURSIVE ConcatenationOf(_)
ConcatenationOf(entries) ==
    IF entries = <<>> THEN <<>>
    ELSE Contribution(Head(entries)) \o ConcatenationOf(Tail(entries))

BadEntries == SelectSeq(run_at_startup, IsBadEntry)
GoodEntries == SelectSeq(run_at_startup, IsGoodEntry)

\* C15: an entry that names an unknown app instance or an unknown command
\* name logs one warning, contributes nothing and raises nothing; the other
\* entries are resolved and their commands invoked exactly as if the entry
\* were not in the list.
C15_BadEntrySkipped ==
    dispatch.called =>
        /\ Len(dispatch.warnings) = Len(BadEntries)
        /\ \A i \in 1..Len(BadEntries) :
              /\ dispatch.warnings[i].app_instance = BadEntries[i].app_instance
              /\ dispatch.warnings[i].name = BadEntries[i].name
              /\ dispatch.warnings[i].kind =
                    (IF RegisteredBy(BadEntries[i].app_instance) = <<>>
                     THEN "not_installed" ELSE "unknown_command")
        /\ dispatch.commands_to_run = ConcatenationOf(GoodEntries)
        /\ dispatch.invoked =
              UpToRaise(ConcatenationOf(GoodEntries), dispatch.raising)
        /\ dispatch.raised = (dispatch.raising # None)

\* C15 witness: an entry with an unknown command name stood before an entry
\* whose commands ran all the same
C15_Witness ==
    /\ dispatch.called /\ ~dispatch.raised
    /\ Len(run_at_startup) >= 2
    /\ IsBadEntry(run_at_startup[1])
    /\ RegisteredBy(run_at_startup[1].app_instance) # <<>>
    /\ IsGoodEntry(run_at_startup[2])
    /\ Len(dispatch.invoked) >= 1
    /\ Len(dispatch.warnings) = 1

-----------------------------------------------------------------------------
(***************************************************************************)
(* Properties of the logging bridge (checked under SpecLogging)            *)
(***************************************************************************)
\* C18: for every record the formatted message is printed to the console
\* exactly once, it is shown in a message box if and only if the level is
\* ERROR or above, and it starts with "Debug: " if and only if the level is
\* below INFO.
C18_LogBridge ==
    log_out.called =>
        LET lv == log_out.record.levelno
            body == <<"Shotgun ", log_out.record.basename, ": ",
                      log_out.record.message>>
            msg == IF lv < INFO THEN <<"Debug: ">> \o body ELSE body
        IN /\ log_out.console = <<msg>>
           /\ log_out.boxes = (IF lv >= ERROR THEN <<msg>> ELSE <<>>)

\* C18 witness: an ERROR record was printed and shown
C18_Witness ==
    /\ log_out.called
    /\ log_out.record.levelno = ERROR
    /\ Len(log_out.boxes) = 1
    /\ Len(log_out.console) = 1

-----------------------------------------------------------------------------
(***************************************************************************)
(* Properties of the life cycle (checked under SpecProject, SpecLifecycle) *)
(***************************************************************************)
\* C13: when the context resolved for an opened project equals the current
\* one, the handler requests no switch, the context stays, the menu is
\* neither destroyed nor created and the startup commands are not run; when
\* it differs, one switch to the resolved context is requested, and a switch
\* that succeeds replaces the menu and runs the startup commands once.
C13_SameContextNoOp ==
    (last.op = "opened" /\ last.resolved /\ last.r.kind = "ok") =>
        IF last.r.ctx = last.ctx_before
        THEN /\ last.switch = None
             /\ last.raised = "none"
             /\ context = last.ctx_before
             /\ life.op = "on_project_opened" /\ life.events = <<>>
             /\ menus = 1 /\ menu_generator = Some("live")
        ELSE /\ last.switch = Some(last.r.ctx)
             /\ last.s = "ok" =>
                   /\ context = last.r.ctx
                   /\ life.events =
                         <<"destroy_menu", "create_menu", "run_startup">>

\* C13 witness: a project whose entity resolved to the current context was
\* opened on an engine with a live menu
C13_Witness ==
    /\ last.op = "opened" /\ last.path = "same"
    /\ last.r.ctx = last.ctx_before
    /\ life.events = <<>>
    /\ menus = 1

\* C20: with a UI, one Shotgun menu is live from post_app_init on, through
\* every post_context_change; a context change destroys the menu, creates the
\* new one and runs the startup commands, in this order; after destroy_engine
\* no menu is live.
C20_OneMenu ==
    has_ui =>
        /\ phase = "created" => menus = 0
        /\ phase = "running" => menus = 1 /\ menu_generator = Some("live")
        /\ phase = "destroyed" => menus = 0
        /\ life.op = "post_context_change" =>
              /\ life.events = <<"destroy_menu", "create_menu", "run_startup">>
              /\ dispatch.called

\* C20 witness: a context change on a running engine with a UI, one menu live
C20_Witness ==
    /\ has_ui /\ phase = "running"
    /\ life.op = "post_context_change"
    /\ menus = 1

-----------------------------------------------------------------------------
(***************************************************************************)
(* The version stamp and the abort paths (checked under SpecProject)       *)
(***************************************************************************)
\* C22: on a project that is not new and has metadata but no version, the
\* handler stores version 1 and nothing else, whatever the entity derivation,
\* the resolver and the context switch do afterwards; when no entity
\* reference can be derived or the resolver fails, the context is unchanged
\* and no switch is requested, while the project's metadata has changed.
C22_StampedBeforeResolution ==
    (/\ Opened /\ ~last.is_new
     /\ last.before # NoMetadata
     /\ last.before.version = None) =>
        /\ project = [last.before EXCEPT !.version = Some(1)]
        /\ (AbortNoReference \/ (CallsResolver /\ last.r.kind # "ok")) =>
              /\ context = last.ctx_before
              /\ last.switch = None
              /\ project # last.before

\* C22 witness: a project holding an entity id without a type, and no
\* version, was stamped although no entity reference could be derived
C22_Witness ==
    /\ Opened /\ AbortNoReference
    /\ last.path = "no_entity"
    /\ last.before.version = None
    /\ project.version = Some(1)
    /\ context = last.ctx_before

-----------------------------------------------------------------------------
(***************************************************************************)
(* The connection of the handler (checked under SpecConnection)            *)
(***************************************************************************)
\* C21: the handler has one connection to mari.projects.opened from
\* post_app_init to destroy_engine, and none before and after; a context
\* change adds none, so an event reaches the handler at most once and
\* requests at most one context switch; an event fired after destroy_engine
\* does not reach the handler and changes neither the project nor the context.
C21_ConnectedOnce ==
    /\ phase = "running" => connected = 1
    /\ phase # "running" => connected = 0
    /\ Opened =>
          /\ last.reached <= 1
          /\ last.switches <= last.reached
    /\ (phase = "running" /\ life.op = "on_project_opened") =>
          last.reached = 1
    /\ (phase = "destroyed" /\ life.op = "on_project_opened") =>
          /\ last.reached = 0 /\ last.switches = 0
          /\ project = last.before
          /\ context = last.ctx_before
          /\ life.events = <<>>

\* C21 witness: on a running engine one event reached the handler once and
\* requested one context switch, which ran the startup dispatch
C21_Witness ==
    /\ phase = "running" /\ connected = 1
    /\ life.op = "on_project_opened"
    /\ last.reached = 1 /\ last.switches = 1
    /\ last.path = "switched"
    /\ dispatch.called

====
